---- MODULE Spec2Model ----
(***************************************************************************)
(* Model of wallet-frontend/spa-server.py: a static file server with a    *)
(* single-page-application fallback, built on http.server's               *)
(* SimpleHTTPRequestHandler and socketserver.TCPServer.                   *)
(*                                                                         *)
(* Text (request targets, file names, filesystem paths) is a sequence of  *)
(* tokens: the separators "/", ".", "?", "#", the escape "%2E" and        *)
(* letter groups such as "index" that contain none of them.  Every string *)
(* function of the code is computed on that text as the code computes it. *)
(* Requests carry no conditional headers (If-Modified-Since).             *)
(***************************************************************************)
EXTENDS Naturals, Sequences, FiniteSets, TLC

\* ---------------------------------------------------------------- bounds

\* Largest number of path segments in a generated request target.
MaxDepth == 2

\* Largest number of connections a run of the accept loop opens.
MaxConns == 3

\* Number of most recent (request, response) pairs a run remembers.
MaxLog == 3

\* ------------------------------------------------------------- constants

\* PORT = 80
PORT == 80

\* DIRECTORY = "/home/ubuntu/f1r3fly-rgb/wallet-frontend/dist", shortened to
\* a two-level absolute path "/home/dist".
DIRECTORY == <<"/", "home", "/", "dist">>

\* The directory the process is started in.
StartDir == <<"/">>

\* self.path = '/index.html'
IndexPath == <<"/", "index", ".", "html">>

\* ------------------------------------------------------- text primitives

Last(s) == s[Len(s)]

\* s.endswith(c) for a single character c
EndsWith(s, c) == s # <<>> /\ Last(s) = c

\* s.startswith(p)
StartsWith(s, p) == Len(s) >= Len(p) /\ SubSeq(s, 1, Len(p)) = p

\* c in s
Contains(s, c) == \E i \in 1..Len(s) : s[i] = c

\* s.split(c, 1)[0]
SplitFirst(s, c) ==
    IF Contains(s, c)
    THEN SubSeq(s, 1, (CHOOSE i \in 1..Len(s) :
                          s[i] = c /\ \A j \in 1..(i-1) : s[j] # c) - 1)
    ELSE s

RECURSIVE SplitAcc(_, _, _, _)
SplitAcc(s, sep, cur, acc) ==
    IF s = <<>> THEN Append(acc, cur)
    ELSE IF Head(s) = sep THEN SplitAcc(Tail(s), sep, <<>>, Append(acc, cur))
    ELSE SplitAcc(Tail(s), sep, Append(cur, Head(s)), acc)

\* s.split(sep): "a//b" gives a, "", b
Split(s, sep) == SplitAcc(s, sep, <<>>, <<>>)

RECURSIVE Join(_, _)
\* sep.join(words)
Join(words, sep) ==
    IF words = <<>> THEN <<>>
    ELSE IF Len(words) = 1 THEN words[1]
    ELSE words[1] \o <<sep>> \o Join(Tail(words), sep)

\* filter(None, words)
RECURSIVE NonEmpty(_)
NonEmpty(words) ==
    IF words = <<>> THEN <<>>
    ELSE IF Head(words) = <<>> THEN NonEmpty(Tail(words))
    ELSE <<Head(words)>> \o NonEmpty(Tail(words))

\* urllib.parse.unquote: the escape %2E decodes to "."
unquote(s) == [i \in 1..Len(s) |-> IF s[i] = "%2E" THEN "." ELSE s[i]]

\* os.path.basename: the text after the last "/"
basename(s) ==
    IF Contains(s, "/")
    THEN SubSeq(s, (CHOOSE i \in 1..Len(s) :
                       s[i] = "/" /\ \A j \in (i+1)..Len(s) : s[j] # "/") + 1,
                Len(s))
    ELSE s

curdir == <<".">>
pardir == <<".", ".">>

RECURSIVE NormComps(_, _, _)
\* the loop of posixpath.normpath over the components
NormComps(comps, new, initial) ==
    IF comps = <<>> THEN new
    ELSE LET comp == Head(comps) IN
         IF comp = <<>> \/ comp = curdir
         THEN NormComps(Tail(comps), new, initial)
         ELSE IF comp # pardir
                 \/ (initial = 0 /\ new = <<>>)
                 \/ (new # <<>> /\ Last(new) = pardir)
         THEN NormComps(Tail(comps), Append(new, comp), initial)
         ELSE IF new # <<>>
         THEN NormComps(Tail(comps), SubSeq(new, 1, Len(new) - 1), initial)
         ELSE NormComps(Tail(comps), new, initial)

\* posixpath.normpath
normpath(path) ==
    IF path = <<>> THEN curdir
    ELSE LET initial == IF ~StartsWith(path, <<"/">>) THEN 0
                        ELSE IF StartsWith(path, <<"/", "/">>)
                                /\ ~StartsWith(path, <<"/", "/", "/">>) THEN 2
                        ELSE 1
             comps == NormComps(Split(path, "/"), <<>>, initial)
             joined == Join(comps, "/")
             out == (IF initial = 2 THEN <<"/", "/">>
                     ELSE IF initial = 1 THEN <<"/">> ELSE <<>>) \o joined
         IN IF out = <<>> THEN curdir ELSE out

\* os.path.join(path, word) for a word without "/"
pathjoin(path, word) ==
    IF path # <<>> /\ Last(path) = "/" THEN path \o word
    ELSE path \o <<"/">> \o word

\* ------------------------------------------------------------ filesystem

\* A filesystem node is named by its absolute path, a sequence of words.
\* A tree is [dirs, files, noperm, ioerr]: files maps each regular file to
\* its bytes; noperm are files whose open() raises OSError; ioerr are files
\* whose read() raises OSError after a successful open().
Idx     == <<"index", ".", "html">>
AppJs   == <<"app", ".", "js">>
Assets  == <<"assets">>
License == <<"LICENSE">>
V1      == <<"v1", ".", "0">>
Dash    == <<"dashboard">>
Missing == <<"missing", ".", "png">>
EncodedPardir == <<"%2E", "%2E">>

Home == << <<"home">> >>
Root == << <<"home">>, <<"dist">> >>

BaseDirs == { <<>>, Home }
Outside  == (Append(Home, License) :> "secret-bytes")

\* a typical build: entry document, a script, an asset directory
Tree1 == [dirs   |-> BaseDirs \cup {Root, Append(Root, Assets)},
          files  |-> Outside @@ (Append(Root, Idx) :> "index-bytes")
                             @@ (Append(Root, AppJs) :> "app-bytes")
                             @@ (Append(Append(Root, Assets), AppJs) :> "chunk-bytes"),
          noperm |-> {}, ioerr |-> {}]

\* a file without extension, a directory with a dot that has its own index
Tree2 == [dirs   |-> BaseDirs \cup {Root, Append(Root, V1), Append(Root, Assets)},
          files  |-> Outside @@ (Append(Root, Idx) :> "index-bytes")
                             @@ (Append(Root, License) :> "license-bytes")
                             @@ (Append(Append(Root, V1), Idx) :> "v1-index-bytes"),
          noperm |-> {}, ioerr |-> {}]

\* a document root without the entry document
Tree3 == [dirs   |-> BaseDirs \cup {Root, Append(Root, Assets)},
          files  |-> Outside @@ (Append(Root, AppJs) :> "app-bytes"),
          noperm |-> {}, ioerr |-> {}]

\* files that exist and cannot be opened or read
Tree4 == [dirs   |-> BaseDirs \cup {Root},
          files  |-> Outside @@ (Append(Root, Idx) :> "index-bytes")
                             @@ (Append(Root, AppJs) :> "app-bytes")
                             @@ (Append(Root, License) :> "license-bytes"),
          noperm |-> {Append(Root, AppJs)},
          ioerr  |-> {Append(Root, License)}]

\* the document root does not exist
NoRootTree == [dirs |-> BaseDirs, files |-> Outside, noperm |-> {}, ioerr |-> {}]

Trees == {Tree1, Tree2, Tree3, Tree4, NoRootTree}

RECURSIVE Walk(_, _, _)
\* The kernel's path walk from node at: every step but the last needs a
\* directory; ".." steps to the parent, "." stays.
Walk(t, comps, at) ==
    IF comps = <<>> THEN [ok |-> TRUE, at |-> at]
    ELSE IF at \notin t.dirs THEN [ok |-> FALSE, at |-> at]
    ELSE LET c == Head(comps) IN
         IF c = curdir THEN Walk(t, Tail(comps), at)
         ELSE IF c = pardir
         THEN Walk(t, Tail(comps),
                   IF at = <<>> THEN at ELSE SubSeq(at, 1, Len(at) - 1))
         ELSE Walk(t, Tail(comps), Append(at, c))

\* The node an absolute path string names; a trailing "/" needs a directory.
Lookup(t, path) ==
    LET w == Walk(t, NonEmpty(Split(path, "/")), <<>>)
        slash == EndsWith(path, "/")
    IN IF w.ok /\ slash /\ w.at \notin t.dirs
       THEN [ok |-> FALSE, at |-> w.at] ELSE w

\* os.path.isfile
isfile(t, path) ==
    LET n == Lookup(t, path) IN n.ok /\ n.at \in DOMAIN t.files

\* os.path.isdir
isdir(t, path) ==
    LET n == Lookup(t, path) IN n.ok /\ n.at \in t.dirs

\* whether node is the directory root or lies below it
Under(node, root) ==
    Len(node) >= Len(root) /\ SubSeq(node, 1, Len(root)) = root

\* --------------------------------------------- SimpleHTTPRequestHandler

RECURSIVE JoinWords(_, _)
\* the loop of translate_path: words that are "." or ".." are ignored
JoinWords(path, words) ==
    IF words = <<>> THEN path
    ELSE IF Contains(Head(words), "/") \/ Head(words) \in {curdir, pardir}
    THEN JoinWords(path, Tail(words))
    ELSE JoinWords(pathjoin(path, Head(words)), Tail(words))

\* A translate_path that joins the request path to the directory as it is.
translate_path_raw(path, directory) ==
    directory \o unquote(SplitFirst(SplitFirst(path, "?"), "#"))

\* SimpleHTTPRequestHandler.translate_path, with self.directory
translate_path(path, directory) ==
    LET p1 == SplitFirst(SplitFirst(path, "?"), "#")
        trailing_slash == EndsWith(p1, "/")
        p2 == normpath(unquote(p1))
        words == NonEmpty(Split(p2, "/"))
        joined == JoinWords(directory, words)
    IN IF trailing_slash THEN joined \o <<"/">> ELSE joined

\* urllib.parse.urlsplit(target).path of an origin-form target
urlsplit_path(target) == SplitFirst(SplitFirst(target, "#"), "?")

NoFile == <<>>

Reply(status, kind, file, body) ==
    [status |-> status, kind |-> kind, file |-> file, body |-> body]

\* send_error(code): an error page, no file
send_error(code) == Reply(code, "error", NoFile, "error-page")

\* The rest of send_head and of the caller once path names what to open:
\* open(path, 'rb'), the 200 headers, then copyfile for GET.
open_and_send(t, path, command) ==
    LET n == Lookup(t, path) IN
    IF EndsWith(path, "/") THEN send_error(404)
    ELSE IF ~(n.ok /\ n.at \in DOMAIN t.files) \/ n.at \in t.noperm
    THEN send_error(404)
    ELSE IF command = "HEAD" THEN Reply(200, "head", n.at, "")
    ELSE IF n.at \in t.ioerr THEN Reply(200, "aborted", n.at, "truncated")
    ELSE Reply(200, "file", n.at, t.files[n.at])

\* SimpleHTTPRequestHandler.send_head followed by do_GET's copyfile or
\* do_HEAD's close: the response to self.path as it stands.
send_head(t, self_path, directory, command) ==
    LET path == translate_path(self_path, directory) IN
    IF isdir(t, path)
    THEN IF ~EndsWith(urlsplit_path(self_path), "/")
         THEN Reply(301, "redirect", NoFile, "")
         ELSE IF isfile(t, pathjoin(path, Idx))
         THEN open_and_send(t, pathjoin(path, Idx), command)
         ELSE IF command = "HEAD"
         THEN Reply(200, "listing-head", Lookup(t, path).at, "")
         ELSE Reply(200, "listing", Lookup(t, path).at, "directory-listing")
    ELSE open_and_send(t, path, command)

\* super().do_GET()
super_do_GET(t, self_path, directory) == send_head(t, self_path, directory, "GET")

\* SimpleHTTPRequestHandler.do_HEAD
do_HEAD(t, self_path, directory) == send_head(t, self_path, directory, "HEAD")

\* ------------------------------------------------- SPAHTTPRequestHandler

\* '.' in os.path.basename(self.path)
HasExtension(self_path) == Contains(basename(self_path), ".")

\* A do_GET without the os.path.isfile test.
do_GET_no_isfile(t, self_path, directory) ==
    IF HasExtension(self_path)
    THEN [path |-> self_path, resp |-> super_do_GET(t, self_path, directory)]
    ELSE [path |-> IndexPath, resp |-> super_do_GET(t, IndexPath, directory)]

\* SPAHTTPRequestHandler.do_GET: the handler's path afterwards and the
\* response written.
do_GET(t, self_path, directory) ==
    LET path == translate_path(self_path, directory) IN
    IF isfile(t, path)
    THEN [path |-> self_path, resp |-> super_do_GET(t, self_path, directory)]
    ELSE IF HasExtension(self_path)
    THEN [path |-> self_path, resp |-> super_do_GET(t, self_path, directory)]
    ELSE [path |-> IndexPath, resp |-> super_do_GET(t, IndexPath, directory)]

\* A handler whose HEAD takes the fallback decision of do_GET as well.
dispatch_head_fallback(t, command, self_path, directory) ==
    IF command = "GET" THEN do_GET(t, self_path, directory)
    ELSE IF command = "HEAD"
    THEN LET p == do_GET(t, self_path, directory).path
         IN [path |-> p, resp |-> do_HEAD(t, p, directory)]
    ELSE [path |-> self_path, resp |-> send_error(501)]

\* BaseHTTPRequestHandler.handle_one_request: do_<command> if the handler
\* class has it, else 501.
dispatch(t, command, self_path, directory) ==
    IF command = "GET" THEN do_GET(t, self_path, directory)
    ELSE IF command = "HEAD"
    THEN [path |-> self_path, resp |-> do_HEAD(t, self_path, directory)]
    ELSE [path |-> self_path, resp |-> send_error(501)]

\* -------------------------------------------------------------- requests

Segments == {Idx, AppJs, Assets, License, V1, Dash, Missing, pardir, EncodedPardir}

Queries == { <<>>, <<"?", "v">>, <<"?", "v", ".", "1">>, <<"?", "r", "/", "x">> }

SegLists == UNION { [1..n -> Segments] : n \in 0..MaxDepth }

\* the origin-form request target "/" seg "/" seg ... ["/"] ["?" query]
Target(segs, slash, query) ==
    <<"/">> \o Join(segs, "/")
            \o (IF slash /\ segs # <<>> THEN <<"/">> ELSE <<>>) \o query

Targets == { Target(segs, slash, q) : segs \in SegLists, slash \in BOOLEAN, q \in Queries }

Commands == {"GET", "HEAD", "POST"}

Requests == [command : Commands, target : Targets]

\* the requests of the runs that compare repeated requests
Probes == [command : {"GET"},
           target : { Target(<<>>, FALSE, <<>>),
                      Target(<<Dash>>, FALSE, <<>>),
                      Target(<<AppJs>>, FALSE, <<>>),
                      Target(<<Idx>>, FALSE, <<>>),
                      Target(<<Missing>>, FALSE, <<>>),
                      Target(<<Assets>>, TRUE, <<"?", "v", ".", "1">>),
                      Target(<<pardir, License>>, FALSE, <<>>) }]

NoRequest == [command |-> "", target |-> <<>>]
NoResponse == Reply(0, "none", NoFile, "")
NoConn == [id |-> 0, req |-> NoRequest, stall |-> FALSE]

\* ----------------------------------------------------------------- state

VARIABLES
    pc,         \* the statement the module's top level is at
    exitCode,   \* the process's exit status once it has exited
    logLines,   \* startup lines written by print
    fs,         \* the filesystem tree
    portInUse,  \* whether another process holds PORT
    cwd,        \* the process's working directory
    bound,      \* whether the listening socket is bound to PORT
    self_path,  \* self.path of the handler instance last constructed
    request,    \* the request last handled
    response,   \* the response to it
    log,        \* the last MaxLog (request, response) pairs, oldest first
    backlog,    \* connections in the listen queue
    nextId,     \* connections opened so far
    current,    \* the connection the accept loop is handling
    answered    \* ids of the connections answered

vars == <<pc, exitCode, logLines, fs, portInUse, cwd, bound, self_path,
          request, response, log, backlog, nextId, current, answered>>

connVars == <<backlog, nextId, current, answered>>
reqVars == <<self_path, request, response>>
procVars == <<pc, exitCode, logLines, cwd, bound>>
envVars == <<fs, portInUse>>

Init ==
    /\ pc = "chdir"
    /\ exitCode = 0
    /\ logLines = 0
    /\ fs \in Trees
    /\ portInUse \in BOOLEAN
    /\ cwd = StartDir
    /\ bound = FALSE
    /\ self_path = <<>>
    /\ request = NoRequest
    /\ response = NoResponse
    /\ log = <<>>
    /\ backlog = <<>>
    /\ nextId = 0
    /\ current = NoConn
    /\ answered = {}

\* ---------------------------------------------------------------- startup

\* An os.chdir whose failure is swallowed.
Chdir_ignore_failure ==
    /\ pc = "chdir"
    /\ cwd' = IF isdir(fs, DIRECTORY) THEN DIRECTORY ELSE cwd
    /\ pc' = "bind"
    /\ UNCHANGED <<exitCode, logLines, bound, envVars, reqVars, log, connVars>>

\* os.chdir(DIRECTORY): an uncaught OSError ends the process with status 1
Chdir ==
    /\ pc = "chdir"
    /\ IF isdir(fs, DIRECTORY)
       THEN cwd' = DIRECTORY /\ pc' = "bind" /\ UNCHANGED exitCode
       ELSE pc' = "exit" /\ exitCode' = 1 /\ UNCHANGED cwd
    /\ UNCHANGED <<logLines, bound, envVars, reqVars, log, connVars>>

\* socketserver.TCPServer(("", PORT), ...): bind and listen; an uncaught
\* OSError (address in use) ends the process with status 1
Bind ==
    /\ pc = "bind"
    /\ IF portInUse
       THEN pc' = "exit" /\ exitCode' = 1 /\ UNCHANGED bound
       ELSE bound' = TRUE /\ pc' = "print" /\ UNCHANGED exitCode
    /\ UNCHANGED <<logLines, cwd, envVars, reqVars, log, connVars>>

\* print(f"Serving SPA from {DIRECTORY} at port {PORT}")
PrintBanner ==
    /\ pc = "print"
    /\ logLines' = logLines + 1
    /\ pc' = "serve"
    /\ UNCHANGED <<exitCode, cwd, bound, envVars, reqVars, log, connVars>>

Startup == Chdir \/ Bind \/ PrintBanner

\* --------------------------------------------------------- serve_forever

\* A self.path that keeps the fallback document once a handler wrote it.
RequestPath_sticky(previous, target) ==
    IF previous = IndexPath THEN previous ELSE target

\* self.path when do_<command> is entered: finish_request constructs a new
\* handler for the connection and parse_request assigns the request
\* line's target, whatever an earlier handler's path was.
RequestPath(previous, target) == target

\* One request through a handler: self.directory is os.getcwd() at its
\* construction.
Handle(req) ==
    LET r == dispatch(fs, req.command, RequestPath(self_path, req.target), cwd)
    IN /\ self_path' = r.path
       /\ request' = req
       /\ response' = r.resp

\* The first turn of serve_forever: accept a connection, handle its
\* request.  Spec follows the process from its start through the first
\* request, over every generated request; SeqSpec follows it through any
\* sequence of the probe requests.
Serve(req) ==
    /\ pc = "serve"
    /\ request = NoRequest
    /\ Handle(req)
    /\ UNCHANGED <<procVars, envVars, log, connVars>>

\* the client's request is any of Requests
ServeFirst ==
    /\ pc = "serve"
    /\ request = NoRequest
    /\ \E req \in Requests : Serve(req)

Next == Startup \/ ServeFirst

Spec == Init /\ [][Next]_vars

\* the same turn, with the pair it produced recorded
ServeProbe(req) ==
    /\ pc = "serve"
    /\ Handle(req)
    /\ log' = LET l == Append(log, [req |-> req, resp |-> response'])
               IN IF Len(l) > MaxLog THEN Tail(l) ELSE l
    /\ UNCHANGED <<procVars, envVars, connVars>>

SeqNext == Startup \/ \E req \in Probes : ServeProbe(req)

SeqSpec == Init /\ [][SeqNext]_vars

\* ------------------------------------------------- the single accept loop

\* the requests the clients of the concurrent runs send
ConnRequests == [command : {"GET"},
                 target : {Target(<<Dash>>, FALSE, <<>>), Target(<<AppJs>>, FALSE, <<>>)}]

\* A client connects: the kernel queues the connection on the listening
\* socket.  A stalling client never sends its request line.
Connect(req, stall) ==
    /\ bound
    /\ pc # "exit"
    /\ nextId < MaxConns
    /\ nextId' = nextId + 1
    /\ backlog' = Append(backlog, [id |-> nextId + 1, req |-> req, stall |-> stall])
    /\ UNCHANGED <<procVars, envVars, reqVars, log, current, answered>>

\* serve_forever, _handle_request_noblock: get_request accepts the next
\* connection once the previous process_request has returned
Accept ==
    /\ pc = "serve"
    /\ current = NoConn
    /\ backlog # <<>>
    /\ current' = Head(backlog)
    /\ backlog' = Tail(backlog)
    /\ UNCHANGED <<procVars, envVars, reqVars, log, nextId, answered>>

\* process_request, finish_request: the handler runs in the accept loop's
\* own thread; it reads the request line (blocking, no timeout), answers
\* and returns
HandleCurrent ==
    /\ pc = "serve"
    /\ current # NoConn
    /\ ~current.stall
    /\ Handle(current.req)
    /\ answered' = answered \cup {current.id}
    /\ current' = NoConn
    /\ UNCHANGED <<procVars, envVars, log, backlog, nextId>>

ConcInit == Init /\ fs = Tree1

ConcNext ==
    \/ Startup
    \/ \E req \in ConnRequests, stall \in BOOLEAN : Connect(req, stall)
    \/ Accept
    \/ HandleCurrent

ConcSpec == ConcInit /\ [][ConcNext]_vars

\* ---------------------------------------------------------------- claims

\* the path part of the last request's target has a "." in its final segment
PathHasExtension == Contains(basename(urlsplit_path(request.target)), ".")

\* the node the last request's path names under the document root
RequestedNode == Lookup(fs, translate_path(request.target, DIRECTORY))

\* a regular file exists at <root>/P for the last request's path P
FileExists == RequestedNode.ok /\ RequestedNode.at \in DOMAIN fs.files

\* a directory exists at <root>/P
DirExists == RequestedNode.ok /\ RequestedNode.at \in fs.dirs

\* the file can be opened and read to its end
Readable(node) == node \in DOMAIN fs.files /\ node \notin fs.noperm \cup fs.ioerr

IndexNode == Append(Root, Idx)

\* C1: a GET for a path without an extension that names no regular file,
\* the document root holding a readable index.html, is answered 200 with
\* the bytes of <root>/index.html.
C1_FallbackForEveryRoute ==
    (/\ request.command = "GET"
     /\ Readable(IndexNode)
     /\ ~PathHasExtension
     /\ ~FileExists)
    => response = Reply(200, "file", IndexNode, fs.files[IndexNode])

\* C2: a GET for a path with an extension that names no regular file is
\* answered 404, whatever the form of the request target.
C2_MissingAssetIs404 ==
    (/\ request.command = "GET"
     /\ PathHasExtension
     /\ ~FileExists)
    => response.status = 404

\* C3: a GET for a path that resolves to an existing regular file (one that
\* can be opened and read) is answered 200 with exactly that file's bytes,
\* and the handler's path is not rewritten to the fallback document, also
\* when the file's name has no ".".
C3_ExistingFileServed ==
    (/\ request.command = "GET"
     /\ FileExists
     /\ Readable(RequestedNode.at))
    => /\ response = Reply(200, "file", RequestedNode.at, fs.files[RequestedNode.at])
       /\ self_path = request.target

\* C3 witness: the file LICENSE, whose name has no ".", was served as itself.
C3_Witness ==
    /\ request = [command |-> "GET", target |-> Target(<<License>>, FALSE, <<>>)]
    /\ fs = Tree2
    /\ response.status = 200
    /\ response.body = "license-bytes"

\* C4: whatever the request, the file or directory a response was produced
\* from lies under the document root.
C4_TraversalSafe ==
    response.file # NoFile => Under(response.file, Root)

\* C4 witness: GET /../LICENSE, where /home/LICENSE exists outside the root
\* and <root>/LICENSE does not, was answered from inside the root.
C4_Witness ==
    /\ request = [command |-> "GET", target |-> Target(<<pardir, License>>, FALSE, <<>>)]
    /\ fs = Tree1
    /\ response.status = 200
    /\ response.file = IndexNode

\* C5: within a run, two identical requests get identical responses,
\* whatever was requested in between.
C5_Stateless ==
    \A i, j \in 1..Len(log) :
        log[i].req = log[j].req => log[i].resp = log[j].resp

\* C5 witness: /app.js, then a fallback for /dashboard, then /app.js again.
C5_Witness ==
    /\ Len(log) = 3
    /\ log[1].req.target = Target(<<AppJs>>, FALSE, <<>>)
    /\ log[2].req.target = Target(<<Dash>>, FALSE, <<>>)
    /\ log[2].resp.file = IndexNode
    /\ log[3].req = log[1].req
    /\ log[3].resp.body = "app-bytes"
    /\ self_path = log[3].req.target

\* C6: a GET for a file that exists and whose open or read fails is
\* answered with a 500-class status.
C6_IOErrorIs500 ==
    (/\ request.command = "GET"
     /\ FileExists
     /\ ~Readable(RequestedNode.at))
    => response.status \in 500..599

StartupInv ==
    /\ logLines <= 1
    /\ bound => cwd = DIRECTORY
    /\ logLines = 1 => bound
    /\ pc = "serve" => logLines = 1
    /\ request # NoRequest => (logLines = 1 /\ bound /\ cwd = DIRECTORY)
    /\ ~isdir(fs, DIRECTORY) => pc \in {"chdir", "exit"}
    /\ portInUse => pc \in {"chdir", "bind", "exit"}
    /\ pc = "exit" => (/\ exitCode # 0
                       /\ ~isdir(fs, DIRECTORY) \/ portInUse
                       /\ logLines = 0
                       /\ ~bound
                       /\ request = NoRequest
                       /\ response = NoResponse)

\* C7: chdir, then bind, then one startup line, then serving; with the
\* document root missing or the port in use the process exits non-zero,
\* having printed nothing and served nothing, and does nothing afterwards.
C7_StartupOrder ==
    /\ []StartupInv
    /\ [][pc = "exit" => UNCHANGED vars]_vars
    /\ [][pc' # pc => \/ pc = "chdir" /\ pc' \in {"bind", "exit"}
                      \/ pc = "bind" /\ pc' \in {"print", "exit"}
                      \/ pc = "print" /\ pc' = "serve"]_vars

\* C7 witness: chdir succeeded, bind failed, the process exited with 1.
C7_Witness ==
    /\ pc = "exit"
    /\ exitCode = 1
    /\ portInUse
    /\ cwd = DIRECTORY
    /\ logLines = 0

\* C8: no 200 response to a GET is a generated directory listing.
C8_NoDirectoryListing ==
    (request.command = "GET" /\ response.status = 200)
    => response.kind # "listing"

\* C9: no connection ever waits behind a request that never completes:
\* while a connection is queued and the loop is serving, the loop is free
\* to accept it or is handling a client that sends its request.  (A
\* stalling client never becomes a sending one, and Accept needs
\* current = NoConn: from a state that violates this the queued connection
\* is never accepted.)
C9_NoBlocking ==
    (pc = "serve" /\ backlog # <<>>) => (current = NoConn \/ ~current.stall)

\* C10 as stated: a non-GET request never has its path rewritten, and for an
\* extensionless path that names no file it never gets 200 for an index.html.
C10_NonGetNeverIndex ==
    request.command \in {"HEAD", "POST"}
    => /\ self_path = request.target
       /\ (~PathHasExtension /\ ~FileExists)
          => ~(response.status = 200 /\ response.file # NoFile
               /\ Last(response.file) = Idx)

\* C10 amended: a non-GET request never has its path rewritten; a method
\* other than HEAD gets 501; HEAD gets 200 only for a path that names an
\* existing file or an existing directory (the base handler's index lookup).
C10_NonGetBaseBehaviour ==
    request.command \in {"HEAD", "POST"}
    => /\ self_path = request.target
       /\ request.command # "HEAD" => response.status = 501
       /\ response.status = 200 => (FileExists \/ DirExists)

\* C10 witness: HEAD /dashboard, no such file, answered 404, path kept.
C10_Witness ==
    /\ request = [command |-> "HEAD", target |-> Target(<<Dash>>, FALSE, <<>>)]
    /\ Readable(IndexNode)
    /\ response.status = 404
    /\ self_path = request.target

====
